---------------------------- MODULE Spec2Model ----------------------------
(***************************************************************************)
(* State-machine model of ppo/train_single.py: the start-up validation of  *)
(* the parsed arguments (module level, lines 21-35) and the training /     *)
(* evaluation loop of main() (lines 66-251).                               *)
(*                                                                         *)
(* The rollout storage (ppo/a2c_ppo_acktr/storage.py) is called by the     *)
(* driver but is not part of the sources at hand; its operations           *)
(* (RolloutStorage, insert, after_update) are modelled from the contract   *)
(* of section 4.1 / 4.3 of the specification.                              *)
(***************************************************************************)
EXTENDS Integers, Sequences, FiniteSets, TLC

VARIABLES
    args,               \* the parsed arguments (line 21); num_rollouts is mutated by line 31
    num_rollouts_arg,   \* history: args.num_rollouts as returned by get_args()
    pc,                 \* position of the single driver thread
    error,              \* "" or the exception that ended the run
    num_updates,        \* line 35
    envs,               \* the training environments: created?, number of envs.step calls
    rollouts,           \* the rollout storage object
    deque_len,          \* line 121
    episode_rewards,    \* line 122: deque(maxlen=deque_len)
    episodes_seen,      \* history: number of finished-episode returns received so far
    j,                  \* loop index of line 125
    step,               \* loop index of line 140
    read_cols,          \* history: storage columns read by the last actor_critic.act
    write_cols,         \* history: storage columns written by the last rollouts.insert
    iters,              \* history: the values of j whose loop body has started, in order
    cycles,             \* history: number of completed collection cycles (for-step loops)
    update_iters,       \* history: the j in which agent.update ran
    update_cycles,      \* history: the values of cycles at which agent.update ran
    skipped,            \* history: the j ended by the continue of line 162
    checkpoints,        \* history: the j in which torch.save ran
    eval_envs,          \* the evaluation environments: open?
    eval_episode_rewards, \* line 213
    eval_reported,      \* history: len(eval_episode_rewards) printed by line 240, 0 if none yet
    act_step,           \* history: the value of step at the last actor_critic.act, -1 if none
    read_tags,          \* history: the storage contents handed to the last actor_critic.act
    done,               \* line 149: the workers whose done flag is set, in the current pass
                        \* of the step loop ({} once the loop is left)
    infos,              \* line 149: the workers whose info carries 'episode', likewise
    masks,              \* line 156: the masks built from done, likewise (<< >> outside)
    actor_critic,       \* the policy: number of times its parameters were changed
    ops,                \* history: the operations of the current iteration, in order
    lr,                 \* the optimizer's learning rate, in units of initial_lr / num_updates
    clip_param,         \* agent.clip_param, in units of args.clip_param / num_updates
    total_num_steps,    \* line 187 (0 while unassigned)
    returns_in,         \* the arguments of a compute_returns call, one worker (ReturnsSpec)
    returns_out         \* its result, << >> before the call (ReturnsSpec)

vars == << args, num_rollouts_arg, pc, error, num_updates, envs, rollouts, deque_len,
           episode_rewards, episodes_seen, j, step, read_cols, write_cols, iters,
           cycles, update_iters, update_cycles, skipped, checkpoints, eval_envs,
           eval_episode_rewards, eval_reported, act_step, read_tags, done, infos,
           masks, actor_critic, ops, lr, clip_param, total_num_steps, returns_in,
           returns_out >>

---------------------------------------------------------------------------
(* Bounds of the model. *)
MaxProcesses == 4
MaxRollouts == 4
MaxSteps == 2
MaxEnvSteps == 12
MaxSaveInterval == 2
MaxEvalInterval == 2

(* Program constants. *)
MinRollouts == 30
EvalEpisodes == 10
MinDequeLen == 10

Algos == {"a2c", "ppo", "acktr"}

\* eval_interval = 0 stands for args.eval_interval = None.  An option the program
\* never reads under a configuration is held at one value there: use_linear_clip_decay
\* is read only for ppo (line 135), save_interval only when save_dir is set (line 171).
ArgsSet ==
    { a \in
        [ algo             : Algos,
          recurrent_policy : BOOLEAN,
          num_rollouts     : 0..MaxRollouts,
          num_processes    : 1..MaxProcesses,
          num_steps        : 1..MaxSteps,
          num_env_steps    : {MaxEnvSteps - 5, MaxEnvSteps},
          save_interval    : 1..MaxSaveInterval,
          eval_interval    : {0, MaxEvalInterval},
          save_dir         : {"", "trained_models"},
          use_linear_lr_decay   : BOOLEAN,
          use_linear_clip_decay : BOOLEAN ] :
        /\ (a.use_linear_clip_decay => a.algo = "ppo")
        /\ (a.save_dir = "" => a.save_interval = 1) }

Workers == 0..(args.num_processes - 1)

---------------------------------------------------------------------------
(* Pure helpers, as the code computes them. *)

\* line 23-26: the two asserts on the algorithm
AlgoAccepted(a) ==
    /\ a.algo \in {"a2c", "ppo", "acktr"}
    /\ (a.recurrent_policy => a.algo \in {"a2c", "ppo"})

WhileCond_Inclusive(n) == n <= MinRollouts

\* line 30: the condition of the while loop
WhileCond(n) == n < MinRollouts

\* line 31: the body of the while loop
WhileBody(n, p) == n + p

Divisible_Swapped(a) == (a.num_rollouts > 0) => (a.num_processes % a.num_rollouts = 0)

\* line 32-33: the divisibility assert
Divisible(a) == (a.num_rollouts > 0) => (a.num_rollouts % a.num_processes = 0)

\* line 35: two successive floor divisions
NumUpdates(a) == (a.num_env_steps \div a.num_steps) \div a.num_processes

\* line 111: width of the storage
StorageWidth(a) == IF a.num_rollouts > 0 THEN a.num_rollouts ELSE a.num_processes

\* line 121
DequeLen(a) ==
    IF a.num_rollouts > 0 THEN a.num_rollouts
    ELSE IF a.num_processes > MinDequeLen THEN a.num_processes ELSE MinDequeLen

\* collections.deque.append with maxlen (line 122, 153): a full deque drops its oldest entry
DequeAppend(d, x, maxlen) ==
    IF maxlen = 0 THEN d
    ELSE IF Len(d) >= maxlen THEN Append(Tail(d), x)
    ELSE Append(d, x)

\* line 151-153: one append per info that carries 'episode'.  A return is represented
\* by its arrival number first+1, first+2, ...
RECURSIVE AppendEpisodes(_, _, _, _)
AppendEpisodes(d, first, n, maxlen) ==
    IF n = 0 THEN d
    ELSE AppendEpisodes(DequeAppend(d, first + 1, maxlen), first + 1, n - 1, maxlen)

\* line 231-233: list.append per info that carries 'episode' (no maxlen)
RECURSIVE ExtendEpisodes(_, _)
ExtendEpisodes(l, n) ==
    IF n = 0 THEN l ELSE ExtendEpisodes(Append(l, Len(l) + 1), n - 1)

\* line 160: the scheduler gate; TRUE means `continue`
GateSkips(a, jj) ==
    a.num_rollouts > 0 /\ (jj % (a.num_rollouts \div a.num_processes)) # 0

\* line 172
SaveCond(a, jj, nu) ==
    (jj % a.save_interval = 0 \/ jj = nu - 1) /\ a.save_dir # ""

\* line 201-203
EvalCond(a, jj, nlogged) ==
    /\ a.eval_interval # 0
    /\ nlogged > 1
    /\ jj % a.eval_interval = 0

EvalContinue_Inclusive(n) == n <= EvalEpisodes

\* line 221: the condition of the evaluation while loop
EvalContinue(n) == n < EvalEpisodes

\* line 144-146: the columns of the storage handed to actor_critic.act
ActColumns(a) == 0..(a.num_processes - 1)

ClipSchedule_OffByOne(jj, nu) == nu - jj - 1

\* line 136: args.clip_param * (1 - j / float(num_updates)), in units of
\* args.clip_param / num_updates
ClipSchedule(jj, nu) == nu - jj

MaskOf_Inverted(d) == IF d THEN 1 ELSE 0

\* line 156-157: 0.0 if done_ else 1.0
MaskOf(d) == IF d THEN 0 ELSE 1

TotalNumSteps_BeforeStep(a, jj) == jj * a.num_processes * a.num_steps

\* line 187
TotalNumSteps(a, jj) == (jj + 1) * a.num_processes * a.num_steps

\* line 114-118: the observation of envs.reset() (tag 0) is copied into slot 0 of every
\* column of the storage: num_rollouts // num_processes copies side by side, plus
\* the first num_rollouts % num_processes columns of one more
ResetObs(a, r) ==
    [ r EXCEPT !.obs[0] = [ c \in DOMAIN @ |-> 0 ] ]

\* utils.update_linear_schedule(optimizer, epoch, total_num_epochs, initial_lr): the
\* learning rate decays linearly from initial_lr towards 0; in units of
\* initial_lr / total_num_epochs
LinearSchedule(epoch, total) == total - epoch

\* envs.step (section 6 of the specification): per worker a done flag and an info
\* that may carry 'episode', the return of an episode that finished in this step.
\* The driver treats the workers alike, so the outcomes are taken up to a renaming of
\* the workers: the first nd workers are done, the first ni of them report an episode.
EnvStepOutcomes(W) ==
    { [ done  |-> { w \in W : w < nd },
        infos |-> { w \in W : w < ni } ] :
      nd \in 0..Cardinality(W), ni \in 0..Cardinality(W) }
    \cap { o \in [ done : SUBSET W, infos : SUBSET W ] : o.infos \subseteq o.done }

---------------------------------------------------------------------------
(* The rollout storage, modelled from the specification (sections 4.1, 4.3). *)

\* RolloutStorage(num_steps, width, ...): slots 0..T for each column; slot 0 holds the
\* carried-over observation, the write cursor starts at slot 1.  inserts counts the
\* insert calls since after_update.  obs[t][c] tells what slot t of column c holds
\* (observation, hidden state and mask are stored together): n >= 1 for the result of
\* the n-th envs.step of the training loop, 0 for the result of envs.reset(), -1 for
\* nothing.
NewRolloutStorage(T, W) ==
    [ allocated |-> TRUE, num_steps |-> T, width |-> W, step |-> 1, inserts |-> 0,
      obs |-> [ t \in 0..T |-> [ c \in 0..(W - 1) |-> -1 ] ] ]

NoRolloutStorage ==
    [ allocated |-> FALSE, num_steps |-> 0, width |-> 0, step |-> 1, inserts |-> 0,
      obs |-> << >> ]

\* insert fails when called more than T times since the last after_update
OutOfCapacity(r) == r.step > r.num_steps

\* insert: write the step's result (tag) at the cursor in the columns cols, advance
\* the cursor
Insert(r, cols, tag) ==
    [ r EXCEPT !.obs[r.step] = [ c \in DOMAIN @ |-> IF c \in cols THEN tag ELSE @[c] ],
               !.step = @ + 1,
               !.inserts = @ + 1 ]

\* the columns insert writes in collection cycle jj: sub-window k = jj mod C
SubWindow(a, jj) ==
    LET C == a.num_rollouts \div a.num_processes
        k == IF C > 0 THEN jj % C ELSE 0
    IN  (k * a.num_processes)..((k + 1) * a.num_processes - 1)

\* after_update: carry the last slot into slot 0, discard the other slots and reset
\* the cursor to 1
AfterUpdate(r) ==
    [ r EXCEPT !.obs = [ t \in DOMAIN @ |->
                           IF t = 0 THEN @[r.num_steps]
                           ELSE [ c \in DOMAIN @[t] |-> -1 ] ],
               !.step = 1,
               !.inserts = 0 ]

---------------------------------------------------------------------------
(* compute_returns of the rollout storage, modelled from section 4.1 of the *)
(* specification, for one worker.  Rewards, value estimates, gamma and tau  *)
(* range over small integers and the recursions are evaluated exactly.      *)

ReturnValues == 0..1
Gammas == 1..2
Taus == 1..2

\* the arguments of one call, for a horizon of T steps: rewards[t] and value_preds[t]
\* for t in 0..T-1, the bootstrap value next_value (the value estimate at t = T), and
\* dones[t], the done flag behind the mask stored at slot t, for t in 1..T
ReturnsInputs(T) ==
    [ T           : {T},
      use_gae     : BOOLEAN,
      gamma       : Gammas,
      tau         : Taus,
      rewards     : [ 0..(T - 1) -> ReturnValues ],
      value_preds : [ 0..(T - 1) -> ReturnValues ],
      next_value  : ReturnValues,
      dones       : [ 1..T -> BOOLEAN ] ]

\* the mask stored at slot t (line 156-158)
StoredMask(in, t) == MaskOf(in.dones[t])

\* V_t, with V_T the bootstrap value
ValueAt(in, t) == IF t = in.T THEN in.next_value ELSE in.value_preds[t]

RECURSIVE UnmaskedReturn(_, _)
UnmaskedReturn(in, t) ==
    IF t = in.T THEN in.next_value
    ELSE in.rewards[t] + in.gamma * UnmaskedReturn(in, t + 1)

RECURSIVE UnmaskedGae(_, _)
UnmaskedGae(in, t) ==
    IF t = in.T THEN 0
    ELSE (in.rewards[t] + in.gamma * ValueAt(in, t + 1) - ValueAt(in, t))
         + in.gamma * in.tau * StoredMask(in, t + 1) * UnmaskedGae(in, t + 1)

ComputeReturns_Unmasked(in) ==
    [ t \in 0..(in.T - 1) |->
        IF in.use_gae THEN UnmaskedGae(in, t) + ValueAt(in, t)
        ELSE UnmaskedReturn(in, t) ]

\* R_t = reward_t + gamma * R_{t+1} * mask_{t+1}, seeded with the bootstrap value
RECURSIVE DiscountedReturn(_, _)
DiscountedReturn(in, t) ==
    IF t = in.T THEN in.next_value
    ELSE in.rewards[t] + in.gamma * DiscountedReturn(in, t + 1) * StoredMask(in, t + 1)

\* delta_t = reward_t + gamma * V_{t+1} * mask_{t+1} - V_t
Delta(in, t) ==
    in.rewards[t] + in.gamma * ValueAt(in, t + 1) * StoredMask(in, t + 1) - ValueAt(in, t)

\* A_t = delta_t + gamma * tau * mask_{t+1} * A_{t+1}, seeded A_T = 0
RECURSIVE Gae(_, _)
Gae(in, t) ==
    IF t = in.T THEN 0
    ELSE Delta(in, t) + in.gamma * in.tau * StoredMask(in, t + 1) * Gae(in, t + 1)

\* compute_returns(bootstrap_value, use_gae, gamma, tau): the returns of the stored steps
ComputeReturns(in) ==
    [ t \in 0..(in.T - 1) |->
        IF in.use_gae THEN Gae(in, t) + ValueAt(in, t)
        ELSE DiscountedReturn(in, t) ]

---------------------------------------------------------------------------
Init ==
    /\ args \in ArgsSet
    /\ num_rollouts_arg = args.num_rollouts
    /\ pc = "assert_algo"
    /\ error = ""
    /\ num_updates = 0
    /\ envs = [ created |-> FALSE, steps |-> 0 ]
    /\ rollouts = NoRolloutStorage
    /\ deque_len = 0
    /\ episode_rewards = << >>
    /\ episodes_seen = 0
    /\ j = 0
    /\ step = 0
    /\ read_cols = {}
    /\ write_cols = {}
    /\ iters = << >>
    /\ cycles = 0
    /\ update_iters = {}
    /\ update_cycles = {}
    /\ skipped = {}
    /\ checkpoints = {}
    /\ eval_envs = [ open |-> FALSE ]
    /\ eval_episode_rewards = << >>
    /\ eval_reported = 0
    /\ act_step = -1
    /\ read_tags = {}
    /\ done = {}
    /\ infos = {}
    /\ masks = << >>
    /\ actor_critic = 0
    /\ ops = << >>
    /\ lr = 0
    /\ clip_param = 0
    /\ total_num_steps = 0
    /\ returns_in = << >>
    /\ returns_out = << >>

\* lines 23-26
AssertAlgo ==
    /\ pc = "assert_algo"
    /\ IF AlgoAccepted(args)
       THEN /\ pc' = "normalise"
            /\ error' = error
       ELSE /\ pc' = "rejected"
            /\ error' = "AssertionError"
    /\ UNCHANGED << args, num_rollouts_arg, num_updates, envs, rollouts, deque_len,
                    episode_rewards, episodes_seen, j, step, read_cols, write_cols,
                    iters, cycles, update_iters, update_cycles, skipped, checkpoints,
                    eval_envs, eval_episode_rewards, eval_reported, act_step,
                    read_tags, done, infos, masks, actor_critic, ops, lr, clip_param,
                    total_num_steps, returns_in, returns_out >>

\* line 28: the while loop is entered only when num_rollouts is 0
IfZeroRollouts ==
    /\ pc = "normalise"
    /\ pc' = IF args.num_rollouts = 0 THEN "while" ELSE "assert_divisible"
    /\ UNCHANGED << args, num_rollouts_arg, error, num_updates, envs, rollouts,
                    deque_len, episode_rewards, episodes_seen, j, step, read_cols,
                    write_cols, iters, cycles, update_iters, update_cycles, skipped,
                    checkpoints, eval_envs, eval_episode_rewards, eval_reported,
                    act_step, read_tags, done, infos, masks, actor_critic, ops, lr,
                    clip_param, total_num_steps, returns_in, returns_out >>

\* lines 30-31: one test of the while condition and, when it holds, one run of the body
WhileRollouts ==
    /\ pc = "while"
    /\ IF WhileCond(args.num_rollouts)
       THEN /\ args' = [ args EXCEPT
                           !.num_rollouts = WhileBody(args.num_rollouts, args.num_processes) ]
            /\ pc' = "while"
       ELSE /\ args' = args
            /\ pc' = "assert_divisible"
    /\ UNCHANGED << num_rollouts_arg, error, num_updates, envs, rollouts, deque_len,
                    episode_rewards, episodes_seen, j, step, read_cols, write_cols,
                    iters, cycles, update_iters, update_cycles, skipped, checkpoints,
                    eval_envs, eval_episode_rewards, eval_reported, act_step,
                    read_tags, done, infos, masks, actor_critic, ops, lr, clip_param,
                    total_num_steps, returns_in, returns_out >>

\* lines 32-35: the divisibility assert, then num_updates
AssertDivisible ==
    /\ pc = "assert_divisible"
    /\ IF Divisible(args)
       THEN /\ pc' = "main"
            /\ error' = error
            /\ num_updates' = NumUpdates(args)
       ELSE /\ pc' = "rejected"
            /\ error' = "AssertionError"
            /\ num_updates' = num_updates
    /\ UNCHANGED << args, num_rollouts_arg, envs, rollouts, deque_len, episode_rewards,
                    episodes_seen, j, step, read_cols, write_cols, iters, cycles,
                    update_iters, update_cycles, skipped, checkpoints, eval_envs,
                    eval_episode_rewards, eval_reported, act_step, read_tags, done,
                    infos, masks, actor_critic, ops, lr, clip_param, total_num_steps,
                    returns_in, returns_out >>

\* lines 66-124: main() up to the loop: environments, policy, agent (with the learning
\* rate and clip parameter as configured), storage with the first observation, deque
Setup ==
    /\ pc = "main"
    /\ envs' = [ envs EXCEPT !.created = TRUE ]
    /\ rollouts' = ResetObs(args, NewRolloutStorage(args.num_steps, StorageWidth(args)))
    /\ deque_len' = DequeLen(args)
    /\ episode_rewards' = << >>
    /\ lr' = num_updates
    /\ clip_param' = num_updates
    /\ j' = 0
    /\ pc' = "for_j"
    /\ UNCHANGED << args, num_rollouts_arg, error, num_updates, episodes_seen, step,
                    read_cols, write_cols, iters, cycles, update_iters, update_cycles,
                    skipped, checkpoints, eval_envs, eval_episode_rewards,
                    eval_reported, act_step, read_tags, done, infos, masks,
                    actor_critic, ops, total_num_steps, returns_in, returns_out >>

\* lines 125-139: the head of `for j in range(num_updates)` and the decay schedules;
\* j is the index of the iteration about to run and equals num_updates once the
\* range is exhausted
ForJ ==
    /\ pc = "for_j"
    /\ IF j < num_updates
       THEN /\ iters' = Append(iters, j)
            /\ lr' = IF args.use_linear_lr_decay
                     THEN LinearSchedule(j, num_updates) ELSE lr
            /\ clip_param' = IF args.algo = "ppo" /\ args.use_linear_clip_decay
                             THEN ClipSchedule(j, num_updates) ELSE clip_param
            /\ ops' = << >>
            /\ step' = 0
            /\ pc' = "collect"
       ELSE /\ UNCHANGED << iters, lr, clip_param, ops, step >>
            /\ pc' = "done"
    /\ UNCHANGED << args, num_rollouts_arg, error, num_updates, envs, rollouts,
                    deque_len, episode_rewards, episodes_seen, j, read_cols,
                    write_cols, cycles, update_iters, update_cycles, skipped,
                    checkpoints, eval_envs, eval_episode_rewards, eval_reported,
                    act_step, read_tags, done, infos, masks, actor_critic,
                    total_num_steps, returns_in, returns_out >>

\* lines 140-158: one pass of the step loop: act on the storage, envs.step, log the
\* finished episodes, build the masks, insert
CollectStep ==
    /\ pc = "collect"
    /\ read_cols' = ActColumns(args)
    /\ read_tags' = { rollouts.obs[step][c] : c \in ActColumns(args) }
    /\ act_step' = step
    /\ envs' = [ envs EXCEPT !.steps = @ + 1 ]
    /\ \E o \in EnvStepOutcomes(Workers) :
         /\ done' = o.done
         /\ infos' = o.infos
         /\ episode_rewards' =
              AppendEpisodes(episode_rewards, episodes_seen, Cardinality(o.infos), deque_len)
         /\ episodes_seen' = episodes_seen + Cardinality(o.infos)
         /\ masks' = [ i \in Workers |-> MaskOf(i \in o.done) ]
    /\ IF OutOfCapacity(rollouts)
       THEN /\ rollouts' = [ rollouts EXCEPT !.inserts = @ + 1 ]
            /\ write_cols' = {}
            /\ error' = "OutOfCapacity"
            /\ pc' = "aborted"
            /\ UNCHANGED << step, cycles, ops >>
       ELSE /\ rollouts' = Insert(rollouts, SubWindow(args, j), envs.steps + 1)
            /\ write_cols' = SubWindow(args, j)
            /\ error' = error
            /\ ops' = Append(ops, "collect")
            /\ step' = step + 1
            /\ IF step + 1 < args.num_steps
               THEN /\ pc' = "collect"
                    /\ cycles' = cycles
               ELSE /\ pc' = "gate"
                    /\ cycles' = cycles + 1
    /\ UNCHANGED << args, num_rollouts_arg, num_updates, deque_len, j, iters,
                    update_iters, update_cycles, skipped, checkpoints, eval_envs,
                    eval_episode_rewards, eval_reported, actor_critic, lr, clip_param,
                    total_num_steps, returns_in, returns_out >>

\* lines 160-162: the scheduler gate
Gate ==
    /\ pc = "gate"
    /\ done' = {}
    /\ infos' = {}
    /\ masks' = << >>
    /\ IF GateSkips(args, j)
       THEN /\ skipped' = skipped \cup {j}
            /\ j' = j + 1
            /\ pc' = "for_j"
       ELSE /\ skipped' = skipped
            /\ j' = j
            /\ pc' = "update"
    /\ UNCHANGED << args, num_rollouts_arg, error, num_updates, envs, rollouts,
                    deque_len, episode_rewards, episodes_seen, step, read_cols,
                    write_cols, iters, cycles, update_iters, update_cycles,
                    checkpoints, eval_envs, eval_episode_rewards, eval_reported,
                    act_step, read_tags, actor_critic, ops, lr, clip_param,
                    total_num_steps, returns_in, returns_out >>

\* lines 164-165: the bootstrap value, from the last slot of the storage
GetValue ==
    /\ pc = "update"
    /\ ops' = Append(ops, "get_value")
    /\ pc' = "compute_returns"
    /\ UNCHANGED << args, num_rollouts_arg, error, num_updates, envs, rollouts,
                    deque_len, episode_rewards, episodes_seen, j, step, read_cols,
                    write_cols, iters, cycles, update_iters, update_cycles, skipped,
                    checkpoints, eval_envs, eval_episode_rewards, eval_reported,
                    act_step, read_tags, done, infos, masks, actor_critic, lr,
                    clip_param, total_num_steps, returns_in, returns_out >>

ComputeReturnsCall_Omitted ==
    /\ pc = "compute_returns"
    /\ pc' = "agent_update"
    /\ UNCHANGED << args, num_rollouts_arg, error, num_updates, envs, rollouts,
                    deque_len, episode_rewards, episodes_seen, j, step, read_cols,
                    write_cols, iters, cycles, update_iters, update_cycles, skipped,
                    checkpoints, eval_envs, eval_episode_rewards, eval_reported,
                    act_step, read_tags, done, infos, masks, actor_critic, ops, lr,
                    clip_param, total_num_steps, returns_in, returns_out >>

\* line 167
ComputeReturnsCall ==
    /\ pc = "compute_returns"
    /\ ops' = Append(ops, "compute_returns")
    /\ pc' = "agent_update"
    /\ UNCHANGED << args, num_rollouts_arg, error, num_updates, envs, rollouts,
                    deque_len, episode_rewards, episodes_seen, j, step, read_cols,
                    write_cols, iters, cycles, update_iters, update_cycles, skipped,
                    checkpoints, eval_envs, eval_episode_rewards, eval_reported,
                    act_step, read_tags, done, infos, masks, actor_critic, lr,
                    clip_param, total_num_steps, returns_in, returns_out >>

\* line 168: the update engine changes the parameters of the policy
AgentUpdate ==
    /\ pc = "agent_update"
    /\ actor_critic' = actor_critic + 1
    /\ update_iters' = update_iters \cup {j}
    /\ update_cycles' = update_cycles \cup {cycles}
    /\ ops' = Append(ops, "agent.update")
    /\ pc' = "after_update"
    /\ UNCHANGED << args, num_rollouts_arg, error, num_updates, envs, rollouts,
                    deque_len, episode_rewards, episodes_seen, j, step, read_cols,
                    write_cols, iters, cycles, skipped, checkpoints, eval_envs,
                    eval_episode_rewards, eval_reported, act_step, read_tags, done,
                    infos, masks, lr, clip_param, total_num_steps, returns_in,
                    returns_out >>

\* line 169
AfterUpdateCall ==
    /\ pc = "after_update"
    /\ rollouts' = AfterUpdate(rollouts)
    /\ ops' = Append(ops, "after_update")
    /\ pc' = "save"
    /\ UNCHANGED << args, num_rollouts_arg, error, num_updates, envs, deque_len,
                    episode_rewards, episodes_seen, j, step, read_cols, write_cols,
                    iters, cycles, update_iters, update_cycles, skipped, checkpoints,
                    eval_envs, eval_episode_rewards, eval_reported, act_step,
                    read_tags, done, infos, masks, actor_critic, lr, clip_param,
                    total_num_steps, returns_in, returns_out >>

\* lines 171-199: the checkpoint, total_num_steps and the log line
Save ==
    /\ pc = "save"
    /\ checkpoints' = IF SaveCond(args, j, num_updates)
                      THEN checkpoints \cup {j} ELSE checkpoints
    /\ total_num_steps' = TotalNumSteps(args, j)
    /\ pc' = "eval"
    /\ UNCHANGED << args, num_rollouts_arg, error, num_updates, envs, rollouts,
                    deque_len, episode_rewards, episodes_seen, j, step, read_cols,
                    write_cols, iters, cycles, update_iters, update_cycles, skipped,
                    eval_envs, eval_episode_rewards, eval_reported, act_step,
                    read_tags, done, infos, masks, actor_critic, ops, lr, clip_param,
                    returns_in, returns_out >>

\* lines 201-219: the evaluation gate; opens fresh evaluation environments
EvalGate ==
    /\ pc = "eval"
    /\ IF EvalCond(args, j, Len(episode_rewards))
       THEN /\ eval_envs' = [ open |-> TRUE ]
            /\ eval_episode_rewards' = << >>
            /\ pc' = "eval_loop"
       ELSE /\ UNCHANGED << eval_envs, eval_episode_rewards >>
            /\ pc' = "vis"
    /\ UNCHANGED << args, num_rollouts_arg, error, num_updates, envs, rollouts,
                    deque_len, episode_rewards, episodes_seen, j, step, read_cols,
                    write_cols, iters, cycles, update_iters, update_cycles, skipped,
                    checkpoints, eval_reported, act_step, read_tags, done, infos,
                    masks, actor_critic, ops, lr, clip_param, total_num_steps,
                    returns_in, returns_out >>

EvalStep_LogsToTraining ==
    /\ pc = "eval_loop"
    /\ EvalContinue(Len(eval_episode_rewards))
    /\ \E fin \in SUBSET Workers :
         /\ eval_episode_rewards' = ExtendEpisodes(eval_episode_rewards, Cardinality(fin))
         /\ episode_rewards' =
              AppendEpisodes(episode_rewards, episodes_seen, Cardinality(fin), deque_len)
    /\ UNCHANGED << args, num_rollouts_arg, pc, error, num_updates, envs, rollouts,
                    deque_len, episodes_seen, j, step, read_cols, write_cols, iters,
                    cycles, update_iters, update_cycles, skipped, checkpoints,
                    eval_envs, eval_reported, act_step, read_tags, done, infos, masks,
                    actor_critic, ops, lr, clip_param, total_num_steps, returns_in,
                    returns_out >>

\* lines 221-236: one test of the while condition and one pass of the body; fin is
\* the set of evaluation workers whose info carries 'episode'
EvalStep ==
    /\ pc = "eval_loop"
    /\ EvalContinue(Len(eval_episode_rewards))
    /\ \E fin \in SUBSET Workers :
         eval_episode_rewards' = ExtendEpisodes(eval_episode_rewards, Cardinality(fin))
    /\ UNCHANGED << args, num_rollouts_arg, pc, error, num_updates, envs, rollouts,
                    deque_len, episode_rewards, episodes_seen, j, step, read_cols,
                    write_cols, iters, cycles, update_iters, update_cycles, skipped,
                    checkpoints, eval_envs, eval_reported, act_step, read_tags, done,
                    infos, masks, actor_critic, ops, lr, clip_param, total_num_steps,
                    returns_in, returns_out >>

\* lines 221, 238-242: the while condition fails; close, print the mean
EvalEnd ==
    /\ pc = "eval_loop"
    /\ ~EvalContinue(Len(eval_episode_rewards))
    /\ eval_envs' = [ eval_envs EXCEPT !.open = FALSE ]
    /\ eval_reported' = Len(eval_episode_rewards)
    /\ pc' = "vis"
    /\ UNCHANGED << args, num_rollouts_arg, error, num_updates, envs, rollouts,
                    deque_len, episode_rewards, episodes_seen, j, step, read_cols,
                    write_cols, iters, cycles, update_iters, update_cycles, skipped,
                    checkpoints, eval_episode_rewards, act_step, read_tags, done,
                    infos, masks, actor_critic, ops, lr, clip_param, total_num_steps,
                    returns_in, returns_out >>

\* lines 244-250 and the step of the for statement of line 125
Vis ==
    /\ pc = "vis"
    /\ j' = j + 1
    /\ pc' = "for_j"
    /\ UNCHANGED << args, num_rollouts_arg, error, num_updates, envs, rollouts,
                    deque_len, episode_rewards, episodes_seen, step, read_cols,
                    write_cols, iters, cycles, update_iters, update_cycles, skipped,
                    checkpoints, eval_envs, eval_episode_rewards, eval_reported,
                    act_step, read_tags, done, infos, masks, actor_critic, ops, lr,
                    clip_param, total_num_steps, returns_in, returns_out >>

Next ==
    \/ AssertAlgo
    \/ IfZeroRollouts
    \/ WhileRollouts
    \/ AssertDivisible
    \/ Setup
    \/ ForJ
    \/ CollectStep
    \/ Gate
    \/ GetValue
    \/ ComputeReturnsCall
    \/ AgentUpdate
    \/ AfterUpdateCall
    \/ Save
    \/ EvalGate
    \/ EvalStep
    \/ EvalEnd
    \/ Vis

Spec == Init /\ [][Next]_vars

---------------------------------------------------------------------------
(* compute_returns on its own: every call with a horizon of at most MaxSteps. *)

InitReturns ==
    /\ args = CHOOSE a \in ArgsSet : TRUE
    /\ num_rollouts_arg = args.num_rollouts
    /\ pc = "returns"
    /\ error = ""
    /\ num_updates = 0
    /\ envs = [ created |-> FALSE, steps |-> 0 ]
    /\ rollouts = NoRolloutStorage
    /\ deque_len = 0
    /\ episode_rewards = << >>
    /\ episodes_seen = 0
    /\ j = 0
    /\ step = 0
    /\ read_cols = {}
    /\ write_cols = {}
    /\ iters = << >>
    /\ cycles = 0
    /\ update_iters = {}
    /\ update_cycles = {}
    /\ skipped = {}
    /\ checkpoints = {}
    /\ eval_envs = [ open |-> FALSE ]
    /\ eval_episode_rewards = << >>
    /\ eval_reported = 0
    /\ act_step = -1
    /\ read_tags = {}
    /\ done = {}
    /\ infos = {}
    /\ masks = << >>
    /\ actor_critic = 0
    /\ ops = << >>
    /\ lr = 0
    /\ clip_param = 0
    /\ total_num_steps = 0
    /\ \E T \in 1..MaxSteps : returns_in \in ReturnsInputs(T)
    /\ returns_out = << >>

\* rollouts.compute_returns(next_value, args.use_gae, args.gamma, args.tau)
ApplyComputeReturns ==
    /\ pc = "returns"
    /\ returns_out = << >>
    /\ returns_out' = ComputeReturns(returns_in)
    /\ pc' = "returned"
    /\ UNCHANGED << args, num_rollouts_arg, error, num_updates, envs, rollouts,
                    deque_len, episode_rewards, episodes_seen, j, step, read_cols,
                    write_cols, iters, cycles, update_iters, update_cycles, skipped,
                    checkpoints, eval_envs, eval_episode_rewards, eval_reported,
                    act_step, read_tags, done, infos, masks, actor_critic, ops, lr,
                    clip_param, total_num_steps, returns_in >>

NextReturns == ApplyComputeReturns

ReturnsSpec == InitReturns /\ [][NextReturns]_vars

---------------------------------------------------------------------------
(* Properties. *)

Max(a, b) == IF a >= b THEN a ELSE b

\* the validation of lines 23-35 is over and the configuration was accepted
Accepted == pc \notin {"assert_algo", "normalise", "while", "assert_divisible", "rejected"}

\* C = num_rollouts / num_processes, the number of sub-windows of the storage
CyclesPerUpdate == args.num_rollouts \div args.num_processes

\* C1: with num_rollouts > 0, an update runs in iteration j exactly when the
\* sub-window index (j mod C) wraps to 0 on the next iteration, i.e. every update,
\* the first included, follows C collection cycles: updates fire after collection
\* cycles C, 2C, 3C, ... and after no other cycle.
C1_UpdateWhenWindowWraps ==
    (Accepted /\ num_rollouts_arg > 0) =>
        /\ \A i \in update_iters : (i + 1) % CyclesPerUpdate = 0
        /\ \A i \in skipped : (i + 1) % CyclesPerUpdate # 0
        /\ \A c \in update_cycles : c % CyclesPerUpdate = 0

\* C2: insert is never called more than num_steps times between two after_update
\* calls (or before the first), so OutOfCapacity is unreachable.
C2_InsertWithinCapacity ==
    Accepted => (rollouts.inserts <= args.num_steps /\ error # "OutOfCapacity")

\* the sub-window [k*num_processes, (k+1)*num_processes) of cycle jj, k = jj mod C
ClaimedWindow(jj) ==
    { c \in 0..(args.num_rollouts - 1) :
        c \div args.num_processes = jj % CyclesPerUpdate }

\* C3: in collection cycle j the policy inputs are read from, and the transitions are
\* written to, exactly the columns of sub-window k = j mod C of the storage.
C3_CycleUsesItsSubWindow ==
    ((pc = "collect" /\ step > 0) \/ pc = "gate") =>
        /\ read_cols = ClaimedWindow(j)
        /\ write_cols = ClaimedWindow(j)

\* the configurations that must be rejected, in terms of the arguments as given
Rejectable ==
    \/ (num_rollouts_arg > 0 /\ num_rollouts_arg % args.num_processes # 0)
    \/ (args.algo = "acktr" /\ args.recurrent_policy)

NoTrainingState ==
    /\ ~envs.created
    /\ envs.steps = 0
    /\ ~rollouts.allocated
    /\ ~eval_envs.open
    /\ iters = << >>
    /\ update_iters = {}
    /\ checkpoints = {}

\* C4: a configuration whose num_rollouts > 0 is not a multiple of num_processes, or
\* that combines acktr with a recurrent policy, ends in an assertion error; no
\* environment, storage, update or checkpoint ever exists for it.
C4_RejectedBeforeTraining ==
    Rejectable =>
        /\ NoTrainingState
        /\ pc \in {"assert_algo", "normalise", "while", "assert_divisible", "rejected"}
        /\ (pc = "rejected" => error = "AssertionError")

C4_Witness ==
    /\ pc = "rejected"
    /\ num_rollouts_arg > 0
    /\ num_rollouts_arg % args.num_processes # 0
    /\ args.algo # "acktr"

\* the smallest multiple of p that is >= MinRollouts
SmallestMultiple(p) ==
    CHOOSE m \in MinRollouts..(MinRollouts + p) :
        /\ m % p = 0
        /\ \A m2 \in MinRollouts..(m - 1) : m2 % p # 0

\* C5: when num_rollouts is configured as 0, the while loop of lines 30-31 terminates
\* (each pass strictly increases num_rollouts towards the floor of 30) and leaves
\* num_rollouts at the smallest multiple of num_processes that is >= 30; that value
\* passes the divisibility assert.
C5_NormalisedRollouts ==
    /\ [](( /\ num_rollouts_arg = 0
            /\ AlgoAccepted(args)
            /\ pc \notin {"assert_algo", "normalise", "while"} ) =>
               /\ args.num_rollouts = SmallestMultiple(args.num_processes)
               /\ args.num_rollouts % args.num_processes = 0
               /\ pc # "rejected")
    /\ [][ (pc = "while" /\ pc' = "while") =>
               /\ args.num_rollouts < MinRollouts
               /\ args'.num_rollouts > args.num_rollouts
               /\ args'.num_rollouts < MinRollouts + args.num_processes ]_vars

C5_Witness ==
    /\ num_rollouts_arg = 0
    /\ pc = "main"
    /\ args.num_rollouts > MinRollouts

\* C6: when num_rollouts is configured as 0 the storage has width num_processes and
\* the scheduler gate never skips an iteration.
C6_ZeroMeansOneSubRollout ==
    num_rollouts_arg = 0 =>
        /\ (rollouts.allocated => rollouts.width = args.num_processes)
        /\ skipped = {}

\* C7: with a non-empty save_dir, every finished iteration i with
\* i mod save_interval = 0, and the final iteration num_updates - 1, wrote a
\* checkpoint.
C7_CheckpointSchedule ==
    (Accepted /\ args.save_dir # "") =>
        \A i \in 0..(j - 1) :
            (i % args.save_interval = 0 \/ i = num_updates - 1) => i \in checkpoints

\* C8: the loop body runs for j = 0, 1, ..., num_updates - 1 in this order, exactly
\* num_updates times by the time the run has ended, and num_updates equals
\* floor(num_env_steps / (num_steps * num_processes)).
C8_LoopRunsNumUpdatesTimes ==
    Accepted =>
        /\ num_updates = args.num_env_steps \div (args.num_steps * args.num_processes)
        /\ \A i \in 1..Len(iters) : iters[i] = i - 1
        /\ Len(iters) <= num_updates
        /\ (pc \in {"done", "aborted"} => (Len(iters) = num_updates /\ pc = "done"))

\* C9 (as stated): the evaluation stops with exactly 10 episode returns and reports
\* the mean of exactly 10, for any number of workers.
C9_ExactlyTenEpisodes ==
    /\ Len(eval_episode_rewards) <= EvalEpisodes
    /\ (eval_reported # 0 => eval_reported = EvalEpisodes)

\* C9 (amended): the evaluation never stops with fewer than 10 episode returns and
\* takes no further step once 10 are collected; every worker can finish an episode
\* in the last step, so the mean is taken over 10 to 9 + num_processes returns
\* (exactly 10 with a single worker).  The training environments are not stepped.
C9_AtLeastTenEpisodes ==
    /\ Len(eval_episode_rewards) <= EvalEpisodes - 1 + args.num_processes
    /\ (eval_reported # 0 =>
          /\ eval_reported >= EvalEpisodes
          /\ eval_reported <= EvalEpisodes - 1 + args.num_processes)
    /\ (pc = "eval_loop" => eval_envs.open)
    /\ ((~eval_envs.open /\ eval_episode_rewards # << >>) =>
          eval_reported = Len(eval_episode_rewards))

C9_Witness ==
    /\ eval_reported > EvalEpisodes
    /\ ~eval_envs.open

\* the capacity the log is said to have
ClaimedCapacity ==
    IF num_rollouts_arg > 0 THEN num_rollouts_arg
    ELSE Max(args.num_processes, MinDequeLen)

\* C10: the rolling log never holds more than num_rollouts entries when num_rollouts
\* was set, nor more than max(num_processes, 10) when it was left at 0, and it holds
\* the most recent returns in arrival order.
C10_RollingLogCapacity ==
    /\ Len(episode_rewards) <= ClaimedCapacity
    /\ \A i \in 1..Len(episode_rewards) :
          episode_rewards[i] = episodes_seen - Len(episode_rewards) + i


---------------------------------------------------------------------------
(* C11 *)

\* the calls that differ from `in` only in the bootstrap value and in the rewards and
\* value estimates at steps >= s
Alternatives(in, s) ==
    { [ in EXCEPT !.next_value  = nv,
                  !.rewards     = [ t \in 0..(in.T - 1) |-> IF t >= s THEN r[t] ELSE @[t] ],
                  !.value_preds = [ t \in 0..(in.T - 1) |-> IF t >= s THEN v[t] ELSE @[t] ] ] :
      nv \in ReturnValues,
      r \in [ s..(in.T - 1) -> ReturnValues ],
      v \in [ s..(in.T - 1) -> ReturnValues ] }

\* C11: in both modes of compute_returns, when the mask stored at step s (1 <= s <= T)
\* is 0, the returns at every step t < s are the same for every bootstrap value and
\* for every choice of rewards and value estimates at steps >= s.
C11_NoLeakAcrossTerminal ==
    returns_out # << >> =>
      \A s \in 1..returns_in.T :
        StoredMask(returns_in, s) = 0 =>
          \A alt \in Alternatives(returns_in, s) :
            \A t \in 0..(s - 1) : ComputeReturns(alt)[t] = returns_out[t]

\* a call with a terminal before the last slot, a bootstrap value and a later reward
\* that would show in the earlier returns if they leaked
C11_Witness ==
    /\ returns_out # << >>
    /\ returns_in.T >= 2
    /\ returns_in.next_value > 0
    /\ \E s \in 1..(returns_in.T - 1) :
         /\ StoredMask(returns_in, s) = 0
         /\ returns_in.rewards[s] > 0

---------------------------------------------------------------------------
(* C12 *)

\* the policy has just acted at step 0 of the running cycle (the act of line 143 comes
\* before the insert of line 158, so it has happened also when that insert failed)
ActedAtStepZero ==
    /\ act_step = 0
    /\ \/ pc \in {"collect", "gate"} /\ step = 1
       \/ pc = "aborted" /\ step = 0

\* C12: at step 0 of every collection cycle after the first, the policy acts on the
\* observation returned by the last envs.step of the preceding cycle, also when that
\* cycle was collection-only.
C12_CarriedOverObservation ==
    (ActedAtStepZero /\ j >= 1) => read_tags = { envs.steps - 1 }

---------------------------------------------------------------------------
(* C13 *)

\* the update of lines 164-168 is running: get_value, compute_returns and agent.update
\* read the storage as the collection left it
Updating == pc \in {"update", "compute_returns", "agent_update"}

\* C13: at every update, every (timestep, column) cell of the full-width window, the
\* final slot included, was written by an insert since the previous after_update (or
\* since start-up): no cell is in its initial or reset state.
C13_WindowFreshAtUpdate ==
    Updating =>
      \A t \in 1..rollouts.num_steps : \A c \in 0..(rollouts.width - 1) :
        rollouts.obs[t][c] >= 1

---------------------------------------------------------------------------
(* C14 *)

\* T collection steps, then the four calls of lines 164-169
ClaimedOps(T) ==
    [ i \in 1..T |-> "collect" ]
      \o << "get_value", "compute_returns", "agent.update", "after_update" >>

\* in an iteration that reaches line 171 the driver has performed exactly T
\* act/step/insert steps, get_value, compute_returns, agent.update and after_update,
\* in this order, and the gate let it through
OrderWithinUpdateIteration ==
    pc = "save" => (ops = ClaimedOps(args.num_steps) /\ ~GateSkips(args, j))

\* a collection phase that has started (its first act and envs.step are done) was
\* preceded by an optimisation phase in the iteration before
OptimisedBeforeCollecting ==
    (ActedAtStepZero /\ j >= 1) => (j - 1) \in update_iters

\* C14 (as claimed): the order of the calls within an update-eligible iteration, and
\* every collection phase is followed by an optimisation phase before the next
\* collection phase starts.
C14_StrictAlternation ==
    OrderWithinUpdateIteration /\ OptimisedBeforeCollecting

\* C14 (amended): in every update-eligible iteration the driver performs, in this
\* order, T collection steps, get_value, compute_returns, agent.update and
\* after_update, with no environment step or insert after get_value; the policy
\* parameters are changed only by agent.update.
C14_OrderedPhases ==
    /\ []OrderWithinUpdateIteration
    /\ [][ actor_critic' # actor_critic => (pc = "agent_update" /\ pc' = "after_update") ]_vars

\* a second update, after a two-step collection phase
C14_Witness ==
    /\ pc = "save"
    /\ j >= 1
    /\ args.num_steps >= 2
    /\ actor_critic >= 2

---------------------------------------------------------------------------
(* C15 *)

\* iteration j of the main loop is running (or has been cut short by a failure)
InLoopBody ==
    pc \in { "collect", "gate", "update", "compute_returns", "agent_update",
             "after_update", "save", "eval", "eval_loop", "vis", "aborted" }

\* the schedules in force in iteration j, in units of (initial value) / num_updates:
\* (num_updates - j) / num_updates of the initial value, strictly positive, and j counts
\* the iterations run
SchedulesFollowIterations ==
    InLoopBody =>
      /\ j = Len(iters) - 1
      /\ j < num_updates
      /\ args.use_linear_lr_decay => (lr = num_updates - j /\ lr > 0)
      /\ (args.algo = "ppo" /\ args.use_linear_clip_decay) =>
           (clip_param = num_updates - j /\ clip_param > 0)

\* C15: the schedule index j is never reset and grows by one per loop iteration,
\* collection-only iterations included; with linear decay enabled the learning rate and
\* the PPO clip parameter in iteration j are (num_updates - j) / num_updates of their
\* initial values, computed from j and not from the number of updates performed.
C15_ScheduleIndex ==
    /\ []SchedulesFollowIterations
    /\ [][ j' # j => j' = j + 1 ]_vars

\* the third iteration of a run with both decays enabled that has updated only once
C15_Witness ==
    /\ pc = "collect"
    /\ j = 2
    /\ Cardinality(update_iters) = 1
    /\ args.use_linear_lr_decay
    /\ args.use_linear_clip_decay
    /\ clip_param = num_updates - 2

---------------------------------------------------------------------------
(* C16 *)

\* the last action was a collection step: done, infos and masks are those of its
\* envs.step
Stepped == masks # << >>

\* the mask of worker i is 0 exactly when its done flag is set, 1 otherwise
MaskIffDone ==
    Stepped => \A i \in Workers : /\ masks[i] = 0 <=> i \in done
                                  /\ masks[i] = 1 <=> i \notin done

---------------------------------------------------------------------------
(* C17 *)

\* the collection of iteration j is complete
Collected ==
    pc \in { "gate", "update", "compute_returns", "agent_update", "after_update",
             "save", "eval", "eval_loop", "vis" }

\* line 187 has run in iteration j
Counted == pc \in { "eval", "eval_loop", "vis" }

\* the training transitions performed so far: envs.step calls times num_processes
Transitions == envs.steps * args.num_processes

---------------------------------------------------------------------------
(* C18 *)

\* lines 201-242 are running
Evaluating == pc \in {"eval", "eval_loop"}

\* C18: an evaluation leaves the training state unchanged: the storage contents and
\* write cursor, the rolling log of training returns, the schedule index j, the policy
\* parameters and the training environments are not changed by any step of it.
C18_EvalLeavesTrainingState ==
    [][ Evaluating =>
          UNCHANGED << rollouts, episode_rewards, episodes_seen, j, actor_critic, envs >> ]_vars

\* an evaluation has run to its end in this iteration
C18_Witness ==
    /\ pc = "vis"
    /\ EvalCond(args, j, Len(episode_rewards))
    /\ eval_reported >= EvalEpisodes
    /\ ~eval_envs.open

---------------------------------------------------------------------------
(* C19 *)

\* C19: a run with an accepted configuration terminates by completing iteration
\* num_updates - 1: no iteration is repeated, and the run does not come to a stop
\* anywhere but at the end of the loop.
C19_AcceptedRunCompletes ==
    Accepted =>
      /\ \A i \in 1..Len(iters) : \A k \in 1..Len(iters) : iters[i] = iters[k] => i = k
      /\ error = ""
      /\ pc # "aborted"
=============================================================================
